---- MODULE Spec2Model ----
(***************************************************************************)
(* A model of approximations.py: the TaylorApproximation and               *)
(* PadeApproximation classes, driven the way main.py and plotter.py drive  *)
(* them (construct, compute_coefficients, series / evaluate_series /       *)
(* evaluate).                                                              *)
(*                                                                         *)
(* Numbers.  sympy keeps the Taylor coefficients exact (Integer and        *)
(* Rational); a number is modelled as a pair <<n, d>>, the fraction n/d in *)
(* lowest terms with d > 0.  numpy's results of a division by zero are the *)
(* pairs <<1, 0>> (inf), <<-1, 0>> (-inf) and <<0, 0>> (nan).              *)
(*                                                                         *)
(* Expressions.  A symbolic expression in x is the record                  *)
(* [p |-> <<p0, p1, ...>>, s |-> S, c |-> C], standing for                 *)
(* p0 + p1*x + p2*x^2 + ... + S*sin(x) + C*cos(x), with integer p_i, S, C  *)
(* and no trailing zero in p.                                              *)
(***************************************************************************)
EXTENDS Integers, Sequences, FiniteSets

\* ------------------------------------------------------------------ bounds
MaxDegree == 2
MaxPoint  == 1
MaxOrder  == 2
MaxCalls  == 2
MaxLen    == 2

\* --------------------------------------------------------- exact arithmetic
Abs(n) == IF n < 0 THEN -n ELSE n

RECURSIVE GCD(_, _)
GCD(a, b) == IF b = 0 THEN a ELSE GCD(b, a % b)

\* sympy's Rational(n, d), d # 0: lowest terms, positive denominator.
Rational(n, d) ==
    LET g  == GCD(Abs(n), Abs(d))
        sg == IF d < 0 THEN -1 ELSE 1
    IN  <<(sg * n) \div g, (sg * d) \div g>>

Integer(n) == <<n, 1>>
Zero == Integer(0)
One  == Integer(1)

Add(a, b) == Rational(a[1] * b[2] + b[1] * a[2], a[2] * b[2])
Sub(a, b) == Rational(a[1] * b[2] - b[1] * a[2], a[2] * b[2])
Mul(a, b) == Rational(a[1] * b[1], a[2] * b[2])

\* The quotient of two finite numbers; numpy's inf and nan when b is zero.
Div(a, b) ==
    IF b[1] # 0 THEN Rational(a[1] * b[2], a[2] * b[1])
    ELSE IF a[1] > 0 THEN <<1, 0>>
    ELSE IF a[1] < 0 THEN <<-1, 0>>
    ELSE <<0, 0>>

RECURSIVE Pow(_, _)
Pow(a, n) == IF n = 0 THEN One ELSE Mul(a, Pow(a, n - 1))

RECURSIVE factorial(_)
factorial(n) == IF n <= 0 THEN 1 ELSE n * factorial(n - 1)

\* ------------------------------------------------------ symbolic expressions
RECURSIVE StripTrailing(_, _)
StripTrailing(sq, z) ==
    IF sq = <<>> THEN sq
    ELSE IF sq[Len(sq)] = z THEN StripTrailing(SubSeq(sq, 1, Len(sq) - 1), z)
    ELSE sq

Polynomial(p) == [p |-> StripTrailing(p, 0), s |-> 0, c |-> 0]
Monomial(k)   == Polynomial([i \in 1..(k + 1) |-> IF i = k + 1 THEN 1 ELSE 0])
Sin           == [p |-> <<>>, s |-> 1, c |-> 0]

IsPolynomial(e) == e.s = 0 /\ e.c = 0

\* Derivative with the power rule's factor left out: d/dx x^i taken as x^(i-1).
Derivative_NoFactor(e) ==
    [p |-> [i \in 1..(Len(e.p) - 1) |-> e.p[i + 1]],
     s |-> -e.c,
     c |-> e.s]

\* d/dx of an expression: the power rule on p, sin' = cos, cos' = -sin.
Derivative(e) ==
    [p |-> [i \in 1..(Len(e.p) - 1) |-> i * e.p[i + 1]],
     s |-> -e.c,
     c |-> e.s]

\* sympy's diff(expr, x, n): the n-th derivative.
RECURSIVE diff(_, _)
diff(e, n) == IF n = 0 THEN e ELSE Derivative(diff(e, n - 1))

RECURSIVE IntPow(_, _)
IntPow(a, n) == IF n = 0 THEN 1 ELSE a * IntPow(a, n - 1)

RECURSIVE SumTo(_, _)
SumTo(f, n) == IF n = 0 THEN 0 ELSE f[n] + SumTo(f, n - 1)

\* expr.subs(x, a) for an integer a.  sin(0) = 0 and cos(0) = 1 are
\* evaluated by sympy; an expression with a sin or cos part is only ever
\* substituted at 0 here (see TaylorInputs).
subs(e, a) ==
    SumTo([i \in 1..Len(e.p) |-> e.p[i] * IntPow(a, i - 1)], Len(e.p))
    + (IF a = 0 THEN e.c ELSE 0)

\* ------------------------------------------------------------------- inputs
Points == 0..MaxPoint

Polynomials ==
    {Monomial(k) : k \in 0..MaxDegree}
    \cup {Polynomial(<<1, 1>>), Polynomial(<<2, 0, -1>>)}

\* (function, point) pairs handed to TaylorApproximation's constructor.
TaylorInputs ==
    (Polynomials \X Points) \cup {<<Sin, 0>>}

\* x_values: a scalar (shape <<>>) or a one-dimensional array (shape <<k>>).
XValues == {Integer(-1), Integer(1)}

Scalar(v)  == [shape |-> <<>>, data |-> <<v>>]
NdArray(d) == [shape |-> <<Len(d)>>, data |-> d]

RECURSIVE SeqsOfLen(_, _)
SeqsOfLen(S, n) ==
    IF n = 0 THEN {<<>>}
    ELSE {Append(sq, v) : sq \in SeqsOfLen(S, n - 1), v \in S}

XInputs ==
    {Scalar(v) : v \in XValues}
    \cup {NdArray(d) : d \in UNION {SeqsOfLen(XValues, k) : k \in 1..MaxLen}}

\* -------------------------------------------------------------------- state
VARIABLES
    taylor_series,   \* the TaylorApproximation instance (main.py's name)
    pade_approx,     \* the PadeApproximation instance (main.py's name)
    taylor_coeffs,   \* the local of PadeApproximation.compute_coefficients
    calls,           \* completed TaylorApproximation.compute_coefficients calls
    result           \* the last call: [op, arg, ret]

vars == <<taylor_series, pade_approx, taylor_coeffs, calls, result>>

\* None for the numerator and the denominator: a poly1d always holds at
\* least one coefficient, so the empty sequence is free to stand for None.
None == <<>>

NoArg == [shape |-> <<>>, data |-> <<>>]
Returned(v) == [raised |-> "", value |-> v]
Raised(exc) == [raised |-> exc, value |-> NoArg]
NoCall == [op |-> "", arg |-> NoArg, ret |-> Returned(NoArg)]

\* TaylorApproximation.__init__
TaylorApproximation(function, degree, point) ==
    [degree        |-> degree,
     point         |-> point,
     func_symbolic |-> function,
     coefficients  |-> <<>>]

\* PadeApproximation.__init__
PadeApproximation(function, order_m, order_n, point) ==
    [function    |-> function,
     order_m     |-> order_m,
     order_n     |-> order_n,
     point       |-> point,
     numerator   |-> None,
     denominator |-> None]

\* ------------------------------------------------------- TaylorApproximation
\* range(k) as the sequence <<0, ..., k-1>>; empty for k <= 0.
range(k) == [i \in 1..k |-> i - 1]

\* The coefficient the loop body computes for one n.
coeff(self, n) ==
    Rational(subs(diff(self.func_symbolic, n), self.point), factorial(n))

\* The loop run over range(degree) instead of range(degree + 1).
AppendedCoefficients_OffByOne(self) ==
    self.coefficients
    \o [i \in 1..Len(range(self.degree)) |-> coeff(self, range(self.degree)[i])]

\* The loop run on a list cleared first (a guard against re-invocation).
AppendedCoefficients_Fresh(self) ==
    [i \in 1..Len(range(self.degree + 1)) |-> coeff(self, range(self.degree + 1)[i])]

\* The list after the loop: one append per n in range(degree + 1).
AppendedCoefficients(self) ==
    self.coefficients
    \o [i \in 1..Len(range(self.degree + 1)) |-> coeff(self, range(self.degree + 1)[i])]

Taylor_compute_coefficients ==
    /\ calls < MaxCalls
    /\ taylor_series' =
           [taylor_series EXCEPT !.coefficients = AppendedCoefficients(taylor_series)]
    /\ calls' = calls + 1
    /\ result' = [op |-> "compute_coefficients", arg |-> NoArg, ret |-> Returned(NoArg)]
    /\ UNCHANGED <<pade_approx, taylor_coeffs>>

\* The sympy expression sum(coeff * (x - point)**n): zero terms vanish, a
\* term of order n >= 1 with a non-zero coefficient contains x.  The value
\* is the expression in powers of (x - about), trailing zeros dropped; the
\* empty sum is sympy's 0.
SeriesExpr(self) ==
    [about |-> self.point, terms |-> StripTrailing(self.coefficients, Zero)]

HasX(expr) == Len(expr.terms) > 1

\* The value of the expression at one number v.
RECURSIVE EvalTerms(_, _, _)
EvalTerms(terms, u, n) ==
    IF n = 0 THEN Zero
    ELSE Add(EvalTerms(terms, u, n - 1), Mul(terms[n], Pow(u, n - 1)))

EvalExpr(expr, v) ==
    EvalTerms(expr.terms, Sub(v, Integer(expr.about)), Len(expr.terms))

\* lambdify(x, expr, modules=["numpy"]) applied to x_values: the generated
\* function returns the expression over x_values, so it broadcasts over an
\* array only where the expression contains x; an expression free of x
\* comes back as the bare number.
lambdify(expr, x_values) ==
    IF HasX(expr)
    THEN [shape |-> x_values.shape,
          data  |-> [i \in 1..Len(x_values.data) |-> EvalExpr(expr, x_values.data[i])]]
    ELSE Scalar(EvalExpr(expr, Zero))

Taylor_series ==
    /\ result' = [op |-> "series", arg |-> NoArg,
                  ret |-> Returned(SeriesExpr(taylor_series))]
    /\ UNCHANGED <<taylor_series, pade_approx, taylor_coeffs, calls>>

\* evaluate_series computing the coefficients itself on every call.
Taylor_evaluate_series_Recomputing(x_values) ==
    LET computed == [taylor_series EXCEPT
                        !.coefficients = AppendedCoefficients(taylor_series)]
    IN  /\ taylor_series' = computed
        /\ result' = [op |-> "evaluate_series", arg |-> x_values,
                      ret |-> Returned(lambdify(SeriesExpr(computed), x_values))]
        /\ UNCHANGED <<pade_approx, taylor_coeffs, calls>>

Taylor_evaluate_series(x_values) ==
    /\ result' = [op |-> "evaluate_series", arg |-> x_values,
                  ret |-> Returned(lambdify(SeriesExpr(taylor_series), x_values))]
    /\ UNCHANGED <<taylor_series, pade_approx, taylor_coeffs, calls>>

\* --------------------------------------------------------- PadeApproximation
Min(a, b) == IF a < b THEN a ELSE b

\* sympy's series(expr, x, n=n).removeO() for a polynomial expression: no
\* x0 is passed, so the expansion is about sympy's default x0 = 0, and the
\* terms of order below n are kept.
series(e, n) ==
    Polynomial(SubSeq(e.p, 1, Min(Len(e.p), n)))

\* expr.coeff(x, i) of a polynomial expression.
ExprCoeff(e, i) == IF i < Len(e.p) THEN e.p[i + 1] ELSE 0

\* float(c.evalf()).  The functions handed to PadeApproximation here are
\* polynomials with integer coefficients (PadeInputs), and binary64 holds
\* a small integer exactly.
float(c) == Integer(c)

Reverse(sq) == [i \in 1..Len(sq) |-> sq[Len(sq) + 1 - i]]

RECURSIVE StripLeading(_, _)
StripLeading(sq, z) ==
    IF sq = <<>> THEN sq
    ELSE IF sq[1] = z THEN StripLeading(Tail(sq), z)
    ELSE sq

\* numpy's poly1d(c): coefficients by descending power, leading zeros
\* trimmed, the zero polynomial kept as one coefficient.
poly1d(c) ==
    LET t == StripLeading(c, Zero) IN IF t = <<>> THEN <<Zero>> ELSE t

\* poly1d.__call__ on one number (Horner, as numpy's polyval).
RECURSIVE polyval(_, _)
polyval(p, v) ==
    IF p = <<>> THEN Zero
    ELSE Add(Mul(polyval(SubSeq(p, 1, Len(p) - 1), v), v), p[Len(p)])

\* numpy.linalg.solve on the augmented matrix M (n rows, n + 1 columns):
\* elimination from column k on; <<>> when a column has no pivot (the
\* matrix is singular and numpy raises LinAlgError).
RECURSIVE Eliminate(_, _)
Eliminate(M, k) ==
    LET n == Len(M) IN
    IF k > n THEN M
    ELSE LET cand == {r \in k..n : M[r][k] # Zero} IN
         IF cand = {} THEN <<>>
         ELSE LET r    == CHOOSE i \in cand : \A j \in cand : i <= j
                  sw   == [i \in 1..n |->
                             IF i = k THEN M[r] ELSE IF i = r THEN M[k] ELSE M[i]]
                  rowk == [j \in 1..(n + 1) |-> Div(sw[k][j], sw[k][k])]
                  M2   == [i \in 1..n |->
                             IF i = k THEN rowk
                             ELSE [j \in 1..(n + 1) |->
                                     Sub(sw[i][j], Mul(sw[i][k], rowk[j]))]]
              IN  Eliminate(M2, k + 1)

solve(C, b) ==
    LET M == [i \in 1..Len(C) |-> Append(C[i], b[i])]
        E == Eliminate(M, 1)
    IN  IF E = <<>> THEN <<>> ELSE [i \in 1..Len(C) |-> E[i][Len(C) + 1]]

\* scipy.interpolate.pade(an, m): m is the order of the denominator, the
\* numerator gets n = len(an) - 1 - m.  Row and column numbers are 0-based
\* as in scipy; an0 reads an 0-based.
pade(an, m) ==
    LET n   == Len(an) - 1 - m
        N   == m + n
        an0(i) == an[i + 1]
        Akj(row, col) == IF row = col THEN One ELSE Zero
        Bkj(row, col) ==
            IF row >= 1 /\ row <= m
            THEN (IF col < row THEN Sub(Zero, an0(row - 1 - col)) ELSE Zero)
            ELSE IF row >= m + 1
            THEN Sub(Zero, an0(row - 1 - col))
            ELSE Zero
        C   == [i \in 1..(N + 1) |->
                  [j \in 1..(N + 1) |->
                     IF j <= n + 1 THEN Akj(i - 1, j - 1)
                     ELSE Bkj(i - 1, j - (n + 2))]]
        pq  == solve(C, an)
        p   == SubSeq(pq, 1, n + 1)
        q   == <<One>> \o SubSeq(pq, n + 2, N + 1)
    IN  IF pq = <<>>
        THEN [raised |-> "LinAlgError", p |-> None, q |-> None]
        ELSE [raised |-> "", p |-> poly1d(Reverse(p)), q |-> poly1d(Reverse(q))]

\* The list comprehension of compute_coefficients.
TaylorCoeffs(self) ==
    LET n == self.order_m + self.order_n + 1
        ts == series(self.function, n)
    IN  [i \in 1..Len(range(n)) |-> float(ExprCoeff(ts, range(n)[i]))]

Pade_compute_coefficients ==
    LET tc == TaylorCoeffs(pade_approx)
        pq == pade(tc, pade_approx.order_n)
    IN  /\ taylor_coeffs' = tc
        /\ IF pq.raised # ""
           THEN /\ pade_approx' = pade_approx
                /\ result' = [op |-> "compute_coefficients", arg |-> NoArg,
                              ret |-> Raised(pq.raised)]
           ELSE /\ pade_approx' =
                       [pade_approx EXCEPT !.numerator = pq.p, !.denominator = pq.q]
                /\ result' = [op |-> "compute_coefficients", arg |-> NoArg,
                              ret |-> Returned(NoArg)]
        /\ UNCHANGED <<taylor_series, calls>>

\* numerator(x_values) / denominator(x_values): elementwise, both poly1d
\* calls keep the shape of x_values; None is not callable.
Pade_evaluate(x_values) ==
    /\ result' =
         [op |-> "evaluate", arg |-> x_values,
          ret |-> IF pade_approx.numerator = None
                  THEN Raised("TypeError")
                  ELSE Returned(
                         [shape |-> x_values.shape,
                          data  |-> [i \in 1..Len(x_values.data) |->
                                       Div(polyval(pade_approx.numerator, x_values.data[i]),
                                           polyval(pade_approx.denominator, x_values.data[i]))]])]
    /\ UNCHANGED <<taylor_series, pade_approx, taylor_coeffs, calls>>

\* ------------------------------------------------------------ specification
\* main.py's instances: TaylorApproximation(sin, 4, 0), PadeApproximation(sin, 3, 2).
Init ==
    /\ \E in \in TaylorInputs, degree \in -1..MaxDegree :
           taylor_series = TaylorApproximation(in[1], degree, in[2])
    /\ pade_approx = PadeApproximation(Sin, 3, 2, 0)
    /\ taylor_coeffs = <<>>
    /\ calls = 0
    /\ result = NoCall

Next ==
    \/ Taylor_compute_coefficients
    \/ Taylor_series
    \/ \E x_values \in XInputs : Taylor_evaluate_series(x_values)

Spec == Init /\ [][Next]_vars

\* The Pade engine on its own: the instance under every input, the Taylor
\* instance as main.py constructs it.
PadeInputs == Polynomials \X (0..MaxOrder) \X (0..MaxOrder) \X Points

PadeInit ==
    /\ taylor_series = TaylorApproximation(Sin, 4, 0)
    /\ \E in \in PadeInputs :
           pade_approx = PadeApproximation(in[1], in[2], in[3], in[4])
    /\ taylor_coeffs = <<>>
    /\ calls = 0
    /\ result = NoCall

PadeNext ==
    \/ Pade_compute_coefficients
    \/ \E x_values \in XInputs : Pade_evaluate(x_values)

PadeSpec == PadeInit /\ [][PadeNext]_vars

\* ---------------------------------------------------------------- reference
\* The mathematics the claims are stated against, computed without diff,
\* subs or factorial.

RECURSIVE Binomial(_, _)
Binomial(n, k) ==
    IF k = 0 \/ k = n THEN 1
    ELSE IF k < 0 \/ k > n THEN 0
    ELSE Binomial(n - 1, k - 1) + Binomial(n - 1, k)

RECURSIVE ProductTo(_)
ProductTo(n) == IF n <= 1 THEN 1 ELSE ProductTo(n - 1) * n

RECURSIVE SumRat(_, _, _)
SumRat(F(_), lo, hi) == IF lo > hi THEN Zero ELSE Add(F(lo), SumRat(F, lo + 1, hi))

\* The coefficient of (x - a)^j of the polynomial with the ascending
\* coefficients p (numbers): sum over k >= j of p_k * C(k, j) * a^(k - j).
ShiftCoeff(p, a, j) ==
    LET Term(k) == Mul(p[k + 1], Integer(Binomial(k, j) * IntPow(a, k - j)))
    IN  SumRat(Term, j, Len(p) - 1)

\* The Maclaurin coefficients of sin and cos.
SinCoeff(n) ==
    IF n % 2 = 0 THEN Zero
    ELSE Rational(IF ((n - 1) \div 2) % 2 = 0 THEN 1 ELSE -1, ProductTo(n))
CosCoeff(n) ==
    IF n % 2 = 1 THEN Zero
    ELSE Rational(IF (n \div 2) % 2 = 0 THEN 1 ELSE -1, ProductTo(n))

\* The Taylor coefficient of order n of the expression e at a (a = 0
\* whenever e has a sin or cos part).
ExactTaylorCoefficient(e, a, n) ==
    Add(ShiftCoeff([i \in 1..Len(e.p) |-> Integer(e.p[i])], a, n),
        Add(Mul(Integer(e.s), SinCoeff(n)), Mul(Integer(e.c), CosCoeff(n))))

Ascending(poly) == Reverse(poly)
Degree(poly) == Len(poly) - 1

\* ------------------------------------------------------------------- claims

\* C1: the coefficient list is empty until compute_coefficients has been
\* invoked; after the first invocation on an instance with degree d >= 0
\* it has d + 1 entries, entry n being the Taylor coefficient of order n.
C1_CoefficientsOnceComputed ==
    /\ calls = 0 => taylor_series.coefficients = <<>>
    /\ (calls = 1 /\ taylor_series.degree >= 0) =>
         /\ Len(taylor_series.coefficients) = taylor_series.degree + 1
         /\ \A n \in 0..taylor_series.degree :
              taylor_series.coefficients[n + 1] =
                ExactTaylorCoefficient(taylor_series.func_symbolic,
                                       taylor_series.point, n)

C1_Witness ==
    /\ calls = 1
    /\ taylor_series.degree = MaxDegree
    /\ Len(taylor_series.coefficients) = MaxDegree + 1
    /\ taylor_series.coefficients[2] # Zero

\* C2: compute_coefficients on an instance constructed with a negative
\* degree raises instead of finishing (with an empty coefficient list).
C2_NegativeDegreeRejected ==
    (taylor_series.degree < 0 /\ result.op = "compute_coefficients")
        => result.ret.raised # ""

\* C3 as claimed: for f = x^k, k <= degree, at every expansion point the
\* computed coefficients are c_k = 1 and c_j = 0 for every other j.
C3_MonomialUnitVector ==
    \A k \in 0..MaxDegree :
        (/\ taylor_series.func_symbolic = Monomial(k)
         /\ k <= taylor_series.degree
         /\ calls = 1)
        => \A j \in 0..taylor_series.degree :
             taylor_series.coefficients[j + 1] = IF j = k THEN One ELSE Zero

\* C3 as amended: for f = x^k, k <= degree, at the expansion point a the
\* computed coefficients are c_k = 1, c_j = 0 for j > k, and
\* c_j = C(k, j) * a^(k - j) for j < k (zero for every j < k when a = 0).
C3_MonomialBinomialCoefficients ==
    \A k \in 0..MaxDegree :
        (/\ taylor_series.func_symbolic = Monomial(k)
         /\ k <= taylor_series.degree
         /\ calls = 1)
        => \A j \in 0..taylor_series.degree :
             taylor_series.coefficients[j + 1] =
               IF j = k THEN One
               ELSE IF j > k THEN Zero
               ELSE Integer(Binomial(k, j) * IntPow(taylor_series.point, k - j))

C3_Witness ==
    /\ calls = 1
    /\ taylor_series.func_symbolic = Monomial(2)
    /\ taylor_series.degree = 2
    /\ taylor_series.point = 1
    /\ taylor_series.coefficients = <<Integer(1), Integer(2), Integer(1)>>

\* C4: the coefficients PadeApproximation.compute_coefficients feeds to the
\* Pade solve are the Taylor coefficients of the function at the
\* instance's point, orders 0..order_m + order_n.
C4_ExpansionAboutPoint ==
    result.op = "compute_coefficients" =>
        taylor_coeffs =
          [i \in 1..(pade_approx.order_m + pade_approx.order_n + 1) |->
             ExactTaylorCoefficient(pade_approx.function, pade_approx.point, i - 1)]

\* P and Q re-expanded in powers of (x - a), and the coefficient of order
\* i of Q*T - P, T the Taylor polynomial of the function at a.
MatchingDefect(self, a, i) ==
    LET P(j) == ShiftCoeff(Ascending(self.numerator), a, j)
        Q(j) == ShiftCoeff(Ascending(self.denominator), a, j)
        T(j) == ExactTaylorCoefficient(self.function, a, j)
        QT(j) == Mul(Q(j), T(i - j))
    IN  Sub(SumRat(QT, 0, i), P(i))

\* C5: once computed, deg P <= order_m, deg Q <= order_n, and the expansion
\* of P/Q about the instance's point agrees with the function's Taylor
\* coefficients there through order order_m + order_n.
C5_PadeMatchesAtPoint ==
    pade_approx.numerator # None =>
        /\ Degree(pade_approx.numerator) <= pade_approx.order_m
        /\ Degree(pade_approx.denominator) <= pade_approx.order_n
        /\ \A i \in 0..(pade_approx.order_m + pade_approx.order_n) :
             MatchingDefect(pade_approx, pade_approx.point, i) = Zero

\* C6: with order_m = order_n = 0 and f(point) # 0 the computed numerator
\* is the constant f(point), the denominator the constant 1, and evaluate
\* returns f(point) for every input.
C6_TrivialPade ==
    (/\ pade_approx.order_m = 0
     /\ pade_approx.order_n = 0
     /\ subs(pade_approx.function, pade_approx.point) # 0
     /\ pade_approx.numerator # None)
    => /\ pade_approx.numerator =
            <<Integer(subs(pade_approx.function, pade_approx.point))>>
       /\ pade_approx.denominator = <<One>>
       /\ result.op = "evaluate" =>
            \A i \in 1..Len(result.ret.value.data) :
                result.ret.value.data[i] =
                    Integer(subs(pade_approx.function, pade_approx.point))

\* C7: on a computed instance (degree >= 0) evaluate_series returns a
\* value of the shape of its input: k values for an array of k, a scalar
\* for a scalar.
C7_ShapePreserving ==
    (/\ calls >= 1
     /\ taylor_series.degree >= 0
     /\ result.op = "evaluate_series")
    => /\ result.ret.raised = ""
       /\ result.ret.value.shape = result.arg.shape

\* C8: a call of series or evaluate_series leaves the instance (degree,
\* point, func_symbolic, coefficients) as it was, and an evaluate_series
\* call that follows one with the same input returns the same output.
C8_EvaluationIsPure ==
    [][/\ result'.op \in {"series", "evaluate_series"}
            => taylor_series' = taylor_series
       /\ (/\ result.op = "evaluate_series"
           /\ result'.op = "evaluate_series"
           /\ result'.arg = result.arg)
            => result'.ret = result.ret]_vars

C8_Witness ==
    /\ calls = 1
    /\ result.op = "evaluate_series"
    /\ result.arg.shape = <<MaxLen>>
    /\ result.ret.value.shape = <<MaxLen>>
    /\ result.ret.value.data[1] # result.ret.value.data[MaxLen]

\* C9: series() before the first compute_coefficients raises instead of
\* returning an expression.
C9_SeriesBeforeComputeRaises ==
    (calls = 0 /\ result.op = "series") => result.ret.raised # ""

\* C10: every compute_coefficients call on an instance of degree d >= 0
\* appends d + 1 coefficients: after k calls the list has k * (d + 1)
\* entries, every block of d + 1 being the Taylor coefficients of orders
\* 0..d (so the first block is what the first call left), and the length
\* is d + 1 only for k = 1.
C10_ReinvocationAppends ==
    taylor_series.degree >= 0 =>
        /\ Len(taylor_series.coefficients) = calls * (taylor_series.degree + 1)
        /\ \A i \in 1..Len(taylor_series.coefficients) :
             taylor_series.coefficients[i] =
               ExactTaylorCoefficient(taylor_series.func_symbolic,
                                      taylor_series.point,
                                      (i - 1) % (taylor_series.degree + 1))
        /\ (Len(taylor_series.coefficients) = taylor_series.degree + 1) <=> (calls = 1)

C10_Witness ==
    /\ calls = 2
    /\ taylor_series.degree = MaxDegree
    /\ Len(taylor_series.coefficients) = 2 * (MaxDegree + 1)
    /\ taylor_series.coefficients[MaxDegree + 3] # Zero

====
